---- MODULE Spec2Model ----
(* The bootcamps resource controller (controllers/bootcamps.js) and its     *)
(* routes, as a state machine: the document store, the upload directory,    *)
(* the requests in flight, the output of the last step and the number of    *)
(* requests served so far.                                                  *)
EXTENDS Integers, Sequences, FiniteSets, Bags, TLC

\* ---------------------------------------------------------------- bounds
MaxIds == 2
MaxInFlight == 2
MaxFileUpload == 1
MaxRequests == 4

\* ---------------------------------------------------------------- values
Users == {"pubA", "pubB", "adm"}
role == [u \in Users |-> IF u = "adm" THEN "admin" ELSE "publisher"]
Ids == 1..MaxIds
Absent == "absent"
NoUser == "nobody"
NoPhoto == <<"no-photo.jpg">>
NullDoc == [user |-> "null", name |-> "null", photo |-> <<>>]
NoBody == [name |-> Absent, user |-> Absent]
NoFile == [name |-> <<>>, mimetype |-> <<>>, size |-> 0]
Image == <<"i", "m", "a", "g", "e">>
Png == Image \o <<"/", "p", "n", "g">>
FileNames == {<<"a", ".", "p", "n", "g">>, <<"b", ".", "c", ".", "p", "n", "g">>}
Mimetypes == {Png, <<"t", "e", "x", "t">>, <<"a", "/", "i", "m", "a", "g", "e">>}
Sizes == {MaxFileUpload, MaxFileUpload + 1}
CreateBodies == [name : {"n0"}, user : {"pubB", Absent}]
UpdateBodies == {[name |-> "n1", user |-> Absent], [name |-> Absent, user |-> "pubB"]}
Uploads == {NoFile} \cup [name : FileNames, mimetype : {Png}, size : {MaxFileUpload}] \cup [name : {<<"a", ".", "p", "n", "g">>}, mimetype : Mimetypes, size : Sizes]
GeoResults == {"fail", "empty", "hit"}
NoReq == [pc |-> "none", user |-> NoUser, id |-> 0, body |-> NoBody, fname |-> <<>>]
NoEvent == [ev |-> "none", op |-> "none", status |-> 0, msg |-> "none", user |-> NoUser, id |-> 0, body |-> NoBody, doc |-> NullDoc, fname |-> <<>>]

VARIABLES store, nextId, uploadDir, flight, out, served
vars == <<store, nextId, uploadDir, flight, out, served>>

\* ---------------------------------------------------------------- helpers
\* res.status(s).json({success: true, data: ...})
Response(op, s, u, i, b, d, f) == [ev |-> "response", op |-> op, status |-> s, msg |-> "success", user |-> u, id |-> i, body |-> b, doc |-> d, fname |-> f]

\* next(new ErrorResponse(msg, s))
ErrorResponse(m, s) == [NoEvent EXCEPT !.ev = "error", !.status = s, !.msg = m]

\* a rejected awaited call inside the handler: the wrapper forwards it with next(err)
asyncHandler == ErrorResponse("failure", 500)

\* a rejected promise nobody awaits: no next(err), no response
Unhandled == [NoEvent EXCEPT !.ev = "unhandled", !.msg = "failure"]

AuthorizedOpen(owner, u) == TRUE
\* !(bootcamp.user.toString() !== req.user.id && req.user.role !== 'admin')
Authorized(owner, u) == ~(owner # u /\ role[u] # "admin")

\* String.prototype.startsWith
StartsWith(s, p) == Len(s) >= Len(p) /\ SubSeq(s, 1, Len(p)) = p

TooLargeInclusive(size) == size >= MaxFileUpload
\* file.size > process.env.MAX_FILE_UPLOAD
TooLarge(size) == size > MaxFileUpload

LastDot(s) == IF \E k \in 1..Len(s) : s[k] = "." THEN CHOOSE k \in 1..Len(s) : s[k] = "." /\ \A j \in (k + 1)..Len(s) : s[j] # "." ELSE 0

ExtNoDot(s) == IF LastDot(s) <= 1 THEN <<>> ELSE SubSeq(s, LastDot(s) + 1, Len(s))
\* path.parse(name).ext: from the last dot on, empty when there is none or it leads the name
Ext(s) == IF LastDot(s) <= 1 THEN <<>> ELSE SubSeq(s, LastDot(s), Len(s))

\* `photo_${bootcamp._id}${path.parse(file.name).ext}`
PhotoName(i, name) == <<"p", "h", "o", "t", "o", "_", ToString(i)>> \o Ext(name)

CreateBodyKeep(b, u) == [b EXCEPT !.user = IF @ = Absent THEN u ELSE @]
\* req.body.user = req.user.id
CreateBody(b, u) == [b EXCEPT !.user = u]

\* Bootcamp.findOne({user: u})
findOne(st, u) == \E i \in DOMAIN st : st[i].user = u

PublishLimitAll(st, u) == findOne(st, u)
\* publishedBootcamps && req.user.role !== 'admin'
PublishLimit(st, u) == findOne(st, u) /\ role[u] # "admin"

\* the payload's fields written over the document's
ApplyBody(d, b) == [user |-> IF b.user = Absent THEN d.user ELSE b.user, name |-> IF b.name = Absent THEN d.name ELSE b.name, photo |-> d.photo]

ExtendStore(st, i, d) == [j \in DOMAIN st \cup {i} |-> IF j = i THEN d ELSE st[j]]

findByIdAndUpsert(st, i, b) == IF i \in DOMAIN st THEN [st EXCEPT ![i] = ApplyBody(@, b)] ELSE ExtendStore(st, i, ApplyBody([user |-> NoUser, name |-> "n0", photo |-> NoPhoto], b))
\* Bootcamp.findByIdAndUpdate(id, body): no upsert, a missing id changes nothing
findByIdAndUpdate(st, i, b) == IF i \in DOMAIN st THEN [st EXCEPT ![i] = ApplyBody(@, b)] ELSE st

\* findByIdAndUpdate(id, {photo: name})
SetPhoto(st, i, f) == IF i \in DOMAIN st THEN [st EXCEPT ![i].photo = f] ELSE st

\* the document a find-by-id style call resolves to (null when missing)
DocOf(st, i) == IF i \in DOMAIN st THEN st[i] ELSE NullDoc

\* bootcamp.remove()
Remove(st, i) == [j \in DOMAIN st \ {i} |-> st[j]]

InFlight == BagToSet(flight)
CanStart(lim) == BagCardinality(flight) < lim /\ served < MaxRequests
Enter(r) == flight' = flight (+) SetToBag({r})
Leave(r) == flight' = flight (-) SetToBag({r})
Move(r, p) == flight' = (flight (-) SetToBag({r})) (+) SetToBag({[r EXCEPT !.pc = p]})

Init ==
  /\ store = <<>>
  /\ nextId = 1
  /\ uploadDir = {}
  /\ flight = EmptyBag
  /\ out = NoEvent
  /\ served = 0

\* ---------------------------------------------------------------- handlers
getBootcamps(lim) ==
  /\ CanStart(lim)
  /\ out' = Response("list", 200, NoUser, 0, NoBody, NullDoc, <<>>)
  /\ UNCHANGED <<store, nextId, uploadDir, flight>>
  /\ served' = served + 1

getBootcamp(lim, i, ok) ==
  /\ CanStart(lim)
  /\ out' = IF ~ok THEN asyncHandler
            ELSE IF i \notin DOMAIN store THEN ErrorResponse("notfound", 404)
            ELSE Response("get", 200, NoUser, i, NoBody, store[i], <<>>)
  /\ UNCHANGED <<store, nextId, uploadDir, flight>>
  /\ served' = served + 1

createBootcamp(lim, u, b, ok) ==
  /\ CanStart(lim)
  /\ nextId + BagCardinality([r \in {x \in InFlight : x.pc = "create"} |-> flight[r]]) <= MaxIds
  /\ IF ~ok
       THEN out' = asyncHandler /\ UNCHANGED flight
     ELSE IF PublishLimit(store, u)
       THEN out' = ErrorResponse("publishlimit", 400) /\ UNCHANGED flight
     ELSE out' = NoEvent /\ Enter([NoReq EXCEPT !.pc = "create", !.user = u, !.body = b])
  /\ UNCHANGED <<store, nextId, uploadDir>>
  /\ served' = served + 1

createBootcampSave(q, ok) ==
  /\ q.pc = "create"
  /\ IF ok
       THEN LET d == [user |-> CreateBody(q.body, q.user).user, name |-> q.body.name, photo |-> NoPhoto]
            IN /\ store' = ExtendStore(store, nextId, d)
               /\ nextId' = nextId + 1
               /\ out' = Response("create", 201, q.user, nextId, q.body, d, <<>>)
       ELSE out' = asyncHandler /\ UNCHANGED <<store, nextId>>
  /\ Leave(q)
  /\ UNCHANGED uploadDir
  /\ UNCHANGED served

updateBootcamp(lim, u, i, b, ok) ==
  /\ CanStart(lim)
  /\ IF ~ok
       THEN out' = asyncHandler /\ UNCHANGED flight
     ELSE IF i \notin DOMAIN store
       THEN out' = ErrorResponse("notfound", 404) /\ UNCHANGED flight
     ELSE IF ~Authorized(store[i].user, u)
       THEN out' = ErrorResponse("unauthorized", 401) /\ UNCHANGED flight
     ELSE out' = NoEvent /\ Enter([NoReq EXCEPT !.pc = "update", !.user = u, !.id = i, !.body = b])
  /\ UNCHANGED <<store, nextId, uploadDir>>
  /\ served' = served + 1

updateBootcampSave(q, ok) ==
  /\ q.pc = "update"
  /\ IF ok
       THEN /\ store' = findByIdAndUpdate(store, q.id, q.body)
            /\ out' = Response("update", 200, q.user, q.id, q.body, DocOf(store', q.id), <<>>)
       ELSE out' = asyncHandler /\ UNCHANGED store
  /\ Leave(q)
  /\ UNCHANGED <<nextId, uploadDir>>
  /\ UNCHANGED served

deleteBootcamp(lim, u, i, ok) ==
  /\ CanStart(lim)
  /\ IF ~ok
       THEN out' = asyncHandler /\ UNCHANGED flight
     ELSE IF i \notin DOMAIN store
       THEN out' = ErrorResponse("notfound", 404) /\ UNCHANGED flight
     ELSE IF ~Authorized(store[i].user, u)
       THEN out' = ErrorResponse("unauthorized", 401) /\ UNCHANGED flight
     ELSE /\ out' = Response("delete", 200, NoUser, i, NoBody, NullDoc, <<>>)
          /\ Enter([NoReq EXCEPT !.pc = "removing", !.id = i])
  /\ UNCHANGED <<store, nextId, uploadDir>>
  /\ served' = served + 1

\* the removal started at bootcamp.remove() settles, after the response
removeSettled(q, ok) ==
  /\ q.pc = "removing"
  /\ IF ok
       THEN store' = Remove(store, q.id) /\ out' = NoEvent
       ELSE out' = Unhandled /\ UNCHANGED store
  /\ Leave(q)
  /\ UNCHANGED <<nextId, uploadDir>>
  /\ UNCHANGED served

getBootcampsInRadius(lim, g) ==
  /\ CanStart(lim)
  /\ IF g = "hit"
       THEN out' = NoEvent /\ Enter([NoReq EXCEPT !.pc = "radius"])
       ELSE out' = asyncHandler /\ UNCHANGED flight
  /\ UNCHANGED <<store, nextId, uploadDir>>
  /\ served' = served + 1

getBootcampsInRadiusFind(q, ok) ==
  /\ q.pc = "radius"
  /\ out' = IF ok THEN Response("radius", 200, NoUser, 0, NoBody, NullDoc, <<>>)
            ELSE asyncHandler
  /\ Leave(q)
  /\ UNCHANGED <<store, nextId, uploadDir>>
  /\ UNCHANGED served

bootcampPhotoUpload(lim, u, i, f, ok) ==
  /\ CanStart(lim)
  /\ IF ~ok
       THEN out' = asyncHandler /\ UNCHANGED flight
     ELSE IF i \notin DOMAIN store
       THEN out' = ErrorResponse("notfound", 404) /\ UNCHANGED flight
     ELSE IF ~Authorized(store[i].user, u)
       THEN out' = ErrorResponse("unauthorized", 401) /\ UNCHANGED flight
     ELSE IF f = NoFile
       THEN out' = ErrorResponse("nofile", 400) /\ UNCHANGED flight
     ELSE IF ~StartsWith(f.mimetype, Image)
       THEN out' = ErrorResponse("notimage", 404) /\ UNCHANGED flight
     ELSE IF TooLarge(f.size)
       THEN out' = ErrorResponse("toolarge", 404) /\ UNCHANGED flight
     ELSE /\ out' = NoEvent
          /\ Enter([NoReq EXCEPT !.pc = "mv", !.id = i, !.fname = PhotoName(i, f.name)])
  /\ UNCHANGED <<store, nextId, uploadDir>>
  /\ served' = served + 1

\* file.mv's callback runs, with or without err
bootcampPhotoUploadMoved(q, ok) ==
  /\ q.pc = "mv"
  /\ IF ok
       THEN /\ uploadDir' = uploadDir \cup {q.fname}
            /\ Move(q, "setphoto")
            /\ out' = NoEvent
       ELSE /\ out' = ErrorResponse("fileupload", 500)
            /\ Leave(q)
            /\ UNCHANGED uploadDir
  /\ UNCHANGED <<store, nextId>>
  /\ UNCHANGED served

\* await Bootcamp.findByIdAndUpdate(req.params.id, {photo: file.name}) inside the callback
bootcampPhotoUploadSetPhoto(q, ok) ==
  /\ q.pc = "setphoto"
  /\ IF ok
       THEN /\ store' = SetPhoto(store, q.id, q.fname)
            /\ Move(q, "respond")
            /\ out' = NoEvent
       ELSE /\ out' = Unhandled
            /\ Leave(q)
            /\ UNCHANGED store
  /\ UNCHANGED <<nextId, uploadDir>>
  /\ UNCHANGED served

bootcampPhotoUploadRespond(q) ==
  /\ q.pc = "respond"
  /\ out' = Response("upload", 200, NoUser, q.id, NoBody, NullDoc, q.fname)
  /\ Leave(q)
  /\ UNCHANGED <<store, nextId, uploadDir>>
  /\ UNCHANGED served

\* ---------------------------------------------------------------- specifications
\* a request arrives while fewer than lim are in flight
Arrive(lim) ==
  \/ getBootcamps(lim)
  \/ \E i \in Ids, ok \in BOOLEAN : getBootcamp(lim, i, ok)
  \/ \E u \in Users, b \in CreateBodies, ok \in BOOLEAN : createBootcamp(lim, u, b, ok)
  \/ \E u \in Users, i \in Ids, b \in UpdateBodies, ok \in BOOLEAN : updateBootcamp(lim, u, i, b, ok)
  \/ \E u \in Users, i \in Ids, ok \in BOOLEAN : deleteBootcamp(lim, u, i, ok)
  \/ \E g \in GeoResults : getBootcampsInRadius(lim, g)
  \/ \E u \in Users, i \in Ids, f \in Uploads, ok \in BOOLEAN : bootcampPhotoUpload(lim, u, i, f, ok)

\* a request in flight takes its next step
Continue ==
  \/ \E q \in InFlight, ok \in BOOLEAN : createBootcampSave(q, ok)
  \/ \E q \in InFlight, ok \in BOOLEAN : updateBootcampSave(q, ok)
  \/ \E q \in InFlight, ok \in BOOLEAN : removeSettled(q, ok)
  \/ \E q \in InFlight, ok \in BOOLEAN : getBootcampsInRadiusFind(q, ok)
  \/ \E q \in InFlight, ok \in BOOLEAN : bootcampPhotoUploadMoved(q, ok)
  \/ \E q \in InFlight, ok \in BOOLEAN : bootcampPhotoUploadSetPhoto(q, ok)
  \/ \E q \in InFlight : bootcampPhotoUploadRespond(q)

Next == Arrive(MaxInFlight) \/ Continue
Spec == Init /\ [][Next]_vars

\* one request at a time, each run to completion before the next arrives
SeqNext == Arrive(1) \/ Continue
SeqSpec == Init /\ [][SeqNext]_vars

\* ---------------------------------------------------------------- properties
Owns(st, u) == {i \in DOMAIN st : st[i].user = u}
Rejected == store' = store /\ uploadDir' = uploadDir /\ flight' = flight
Accepted == out' = NoEvent /\ flight' # flight /\ store' = store /\ uploadDir' = uploadDir

C1_Gate(u, i) ==
  IF store[i].user # u /\ role[u] # "admin"
    THEN out'.ev = "error" /\ out'.status = 401 /\ Rejected
    ELSE out'.status # 401

\* C1: Update, Delete and Photo Upload by a requester who is neither the owner of
\* the record as read nor an admin end with the 401 error and leave the store, the
\* upload directory and the requests in flight unchanged; the owner, and an admin
\* whatever the owner, are not answered 401.
C1_AuthorizationGate ==
  \A u \in Users, i \in DOMAIN store :
    /\ \A b \in UpdateBodies : ~ENABLED (updateBootcamp(MaxInFlight, u, i, b, TRUE) /\ ~C1_Gate(u, i))
    /\ ~ENABLED (deleteBootcamp(MaxInFlight, u, i, TRUE) /\ ~C1_Gate(u, i))
    /\ \A f \in Uploads : ~ENABLED (bootcampPhotoUpload(MaxInFlight, u, i, f, TRUE) /\ ~C1_Gate(u, i))

C1_Witness == out.ev = "error" /\ out.status = 401 /\ DOMAIN store # {}

\* C2: every non-admin user owns at most one record, in every reachable state.
C2_OnePerPublisher ==
  \A u \in Users : role[u] # "admin" => Cardinality(Owns(store, u)) <= 1

C3_Checked(u) ==
  IF Owns(store, u) # {} /\ role[u] # "admin"
    THEN out'.ev = "error" /\ out'.status = 400 /\ Rejected
    ELSE Accepted

C3_Saved(q) ==
  /\ Owns(store, q.user) = {} \/ role[q.user] = "admin"
  /\ out'.ev = "response" /\ out'.status = 201
  /\ out'.id \notin DOMAIN store
  /\ DOMAIN store' = DOMAIN store \cup {out'.id}
  /\ \A i \in DOMAIN store : store'[i] = store[i]
  /\ out'.doc = store'[out'.id]

\* C3: a Create with no other request interleaved fails with 400 and leaves the
\* records unchanged when the requester owns a record and is no admin; otherwise
\* it adds exactly one record and answers 201 with it.
C3_CreateOutcome ==
  /\ \A u \in Users, b \in CreateBodies : ~ENABLED (createBootcamp(1, u, b, TRUE) /\ ~C3_Checked(u))
  /\ \A q \in InFlight : ~ENABLED (createBootcampSave(q, TRUE) /\ ~C3_Saved(q))

C3_Witness ==
  /\ out.op = "create" /\ out.status = 201 /\ role[out.user] = "admin"
  /\ Cardinality(Owns(store, out.user)) = 2

\* C4: the record a Create persists is owned by the authenticated user who issued
\* it, whatever owner the payload names.
C4_CreateOwner ==
  (out.op = "create" /\ out.status = 201)
  => out.id \in DOMAIN store /\ store[out.id].user = out.user /\ out.doc.user = out.user

C4_Witness ==
  /\ out.op = "create" /\ out.status = 201
  /\ out.body.user \notin {Absent, out.user}
  /\ store[out.id].user = out.user

\* C5: once a Delete of id i has answered 200, a Get-by-id of i answers 404.
C5_DeletedIsGone ==
  \A q \in InFlight :
    q.pc = "removing" => ~(out.op = "get" /\ out.id = q.id /\ out.status = 200)

\* the extension each file name of the model carries
ExpectedExt(name) == IF name \in FileNames THEN <<".", "p", "n", "g">> ELSE <<>>

\* C6 (as stated): at the moment a Photo Upload answers 200 the file is in the
\* storage directory and record i's photo field equals the returned file name.
C6_PhotoSetAtResponse ==
  (out.op = "upload" /\ out.status = 200)
  => /\ out.fname \in uploadDir
     /\ out.id \in DOMAIN store
     /\ store[out.id].photo = out.fname

C6_Named(i, f) ==
  flight' # flight
  => \E r \in BagToSet(flight') :
       /\ r.pc = "mv" /\ r.id = i /\ flight' = flight (+) SetToBag({r})
       /\ r.fname = <<"p", "h", "o", "t", "o", "_", ToString(i)>> \o ExpectedExt(f.name)

C6_Updated(q) ==
  /\ q.fname \in uploadDir
  /\ q.id \in DOMAIN store => store'[q.id].photo = q.fname

C6_Answered ==
  (out'.op = "upload" /\ out'.status = 200)
  => /\ out'.fname \in uploadDir'
     /\ \E q \in InFlight : q.pc = "respond" /\ q.id = out'.id /\ q.fname = out'.fname /\ flight' = flight (-) SetToBag({q})

\* C6 (amended): an accepted Photo Upload on record i is named photo_<i><ext>; the
\* record update runs after the file is in the storage directory and sets the photo
\* field of record i to that name if the record still exists; the 200 response
\* carries that name and is sent after the update, with the file in the directory.
C6_PhotoAfterMoveAndUpdate ==
  /\ \A u \in Users, i \in Ids, f \in Uploads : ~ENABLED (bootcampPhotoUpload(MaxInFlight, u, i, f, TRUE) /\ ~(C6_Named(i, f) /\ C6_Answered))
  /\ \A q \in InFlight : ~ENABLED (bootcampPhotoUploadSetPhoto(q, TRUE) /\ ~C6_Updated(q))
  /\ ~ENABLED (Continue /\ ~C6_Answered)
  /\ \A q \in InFlight : q.pc = "respond" => q.fname \in uploadDir
  /\ (out.op = "upload" /\ out.status = 200) => out.fname \in uploadDir

C6_Witness ==
  /\ out.op = "upload" /\ out.status = 200
  /\ out.fname \in uploadDir
  /\ out.id \in DOMAIN store /\ store[out.id].photo = out.fname

C7_Checked(u, i, f) ==
  IF i \notin DOMAIN store
    THEN out' = ErrorResponse("notfound", 404) /\ Rejected
  ELSE IF store[i].user # u /\ role[u] # "admin"
    THEN out' = ErrorResponse("unauthorized", 401) /\ Rejected
  ELSE IF f = NoFile
    THEN out' = ErrorResponse("nofile", 400) /\ Rejected
  ELSE IF Len(f.mimetype) < 5 \/ \E k \in 1..5 : f.mimetype[k] # Image[k]
    THEN out'.ev = "error" /\ out'.msg = "notimage" /\ Rejected
  ELSE IF f.size > MaxFileUpload
    THEN out'.ev = "error" /\ out'.msg = "toolarge" /\ Rejected
  ELSE Accepted

\* C7: a Photo Upload is checked in the order record exists, authorization, file
\* attached, content type, size; a rejected upload writes no file and changes no
\* record.
C7_UploadChecks ==
  \A u \in Users, i \in Ids, f \in Uploads :
    ~ENABLED (bootcampPhotoUpload(MaxInFlight, u, i, f, TRUE) /\ ~C7_Checked(u, i, f))

C7_Witness == out.ev = "error" /\ out.msg = "toolarge" /\ DOMAIN store # {}

\* C8: a failed store call, geocoding call or file move ends its request with the
\* error forwarded to the error formatter.
C8_FailureForwarded == out.msg = "failure" => out.ev = "error"

C9_Written(q) ==
  /\ DOMAIN store' = DOMAIN store
  /\ \A j \in DOMAIN store \ {q.id} : store'[j] = store[j]
  /\ out'.ev = "response" /\ out'.status = 200
  /\ q.id \notin DOMAIN store => store' = store /\ out'.doc = NullDoc

\* C9: the write of an Update changes no record but the one named by its id and
\* creates none; against a record that is gone it changes nothing and the Update
\* still answers 200.
C9_UpdateTouchesOneRecord ==
  \A q \in InFlight : ~ENABLED (updateBootcampSave(q, TRUE) /\ ~C9_Written(q))

\* the write of a non-admin requester has been applied to a record another user owns
C9_Witness ==
  /\ out.op = "update" /\ out.status = 200
  /\ role[out.user] # "admin"
  /\ out.body.user = Absent /\ out.body.name # Absent
  /\ out.id \in DOMAIN store
  /\ store[out.id].user # out.user /\ store[out.id].name = out.body.name

\* an Update has answered 200 on a record deleted since its check
C9_VanishedWitness == out.op = "update" /\ out.status = 200 /\ out.doc = NullDoc

\* C10: the owner of a record never changes while the record exists.
C10_OwnerFixed ==
  [][\A i \in DOMAIN store \cap DOMAIN store' : store'[i].user = store[i].user]_vars

====
